---- MODULE Spec2Model ----
(***************************************************************************)
(* wabridge: the synchronous (WABridge) and asynchronous (AsyncWABridge)   *)
(* clients of src/wabridge/client.py, driven in lockstep: every call is    *)
(* made on one client of each variant, with the same arguments, against    *)
(* the same server responses.                                              *)
(*                                                                         *)
(* Python values.  None is the token None.  A str is a TLA+ string.  A     *)
(* dict is a function from its keys.  A decoded JSON body is a record      *)
(* [json |-> "dict", d |-> <dict>], [json |-> "list"] (valid JSON that is  *)
(* not an object) or [json |-> "invalid"] (not JSON at all).  A statement  *)
(* sequence ends in Return(value) or Raise(exception).                     *)
(*                                                                         *)
(* A request is "issued" when the client code calls the HTTP layer         *)
(* (self._client.get / .post, httpx.post); log holds those calls.  What    *)
(* the HTTP layer answers is the server's response, a transport failure,   *)
(* or RuntimeError when the pooled client has been closed.                 *)
(***************************************************************************)
EXTENDS Integers, Sequences, FiniteSets, TLC

VARIABLES
    closed,     \* closed[v]: the pooled httpx client of variant v is closed
    pc,         \* "idle" | "sync_batch" | "async_batch" | "returned"
    call,       \* the call being made (its name and arguments), or NoCall
    served,     \* what the server answers: one response, or one per batch item
    log,        \* log[v]: the requests variant v issued during the call
    ret,        \* ret[v]: how the call ended on variant v, Return(..) or Raise(..)
    pool,       \* sync _send_many: pool[i], the state of item i's future
    results,    \* sync _send_many: the results list, None where unfilled
    tasks       \* async _send_many: tasks[i], the state of item i's coroutine

vars == <<closed, pc, call, served, log, ret, pool, results, tasks>>

Variants == {"sync", "async"}

---------------------------------------------------------------------------
(* Bounds of the model *)

\* The longest batch (list of (phone, message) pairs) a call passes.
MaxBatch == 2

\* The largest explicit max_workers a call passes.
MaxWorkersArg == 2

---------------------------------------------------------------------------
(* Python values *)

None == "None"

\* bool(x) of an Optional[str]: None and "" are falsy.
Truthy(x) == x # None /\ x # ""

Return(v) == [kind |-> "return", value |-> v]

Raise(e) == [kind |-> "raise", exc |-> e]

\* A transport-level or decoding exception (an Exception without status_code).
Exc(type) == [type |-> type, message |-> "str(" \o type \o ")"]

\* dict.get(key, default)
Get(d, key, default) == IF key \in DOMAIN d THEN d[key] ELSE default

EmptyDict == [k \in {} |-> None]

\* {**a, **b}: the keys of b override those of a.
Merge(a, b) == b @@ a

---------------------------------------------------------------------------
(* exceptions.py *)

WABridgeError(message, status_code) ==
    [type |-> "WABridgeError", message |-> message, status_code |-> status_code]

ConnectionError(message, status_code) ==
    [type |-> "ConnectionError", message |-> message, status_code |-> status_code]

ValidationError(message, status_code) ==
    [type |-> "ValidationError", message |-> message, status_code |-> status_code]

---------------------------------------------------------------------------
(* The HTTP layer (httpx) as the client code sees it *)

Request(method, path, body) == [method |-> method, path |-> path, body |-> body]

NoBody == [nobody |-> TRUE]

Response(status_code, body) ==
    [kind |-> "response", status_code |-> status_code, body |-> body]

TransportError(type) == [kind |-> "error", exc |-> Exc(type)]

\* self._client.get / self._client.post: a closed httpx client refuses to send.
ClientSend(isClosed, answer) ==
    IF isClosed THEN TransportError("RuntimeError") ELSE answer

\* httpx.post: a fresh connection per call, whatever the pooled client's state.
FreshSend(isClosed, answer) == answer

\* response.json()
Json(r) ==
    IF r.body.json = "invalid" THEN Raise(Exc("JSONDecodeError")) ELSE Return(r.body)

\* data.get(key, default) on a decoded body: only a dict has .get
BodyGet(body, key, default) ==
    IF body.json = "dict" THEN Return(Get(body.d, key, default))
    ELSE Raise(Exc("AttributeError"))

---------------------------------------------------------------------------
(* class WABridge: the synchronous client *)

_handle_error(response) ==
    IF response.status_code = 200 THEN Return(None)
    ELSE LET data == Json(response) IN
         IF data.kind = "raise" THEN data
         ELSE LET error == BodyGet(data.value, "error", "Unknown error") IN
              IF error.kind = "raise" THEN error
              ELSE IF response.status_code = 500
                   THEN Raise(ConnectionError(error.value, 500))
              ELSE IF response.status_code = 400
                   THEN Raise(ValidationError(error.value, 400))
              ELSE Raise(WABridgeError(error.value, response.status_code))

\* A slip: video is tested before image.
_build_content_video_first(message, image, video, audio, document, caption, mimetype, filename, ptt) ==
    IF Truthy(video) THEN
        ("video" :> video)
        @@ (IF Truthy(caption) THEN ("caption" :> caption) ELSE EmptyDict)
    ELSE IF Truthy(image) THEN
        ("image" :> image)
        @@ (IF Truthy(caption) THEN ("caption" :> caption) ELSE EmptyDict)
    ELSE IF Truthy(audio) THEN
        ("audio" :> audio)
        @@ (IF ptt # None THEN ("ptt" :> ptt) ELSE EmptyDict)
    ELSE IF Truthy(document) THEN
        ("document" :> document)
        @@ (IF Truthy(mimetype) THEN ("mimetype" :> mimetype) ELSE EmptyDict)
        @@ (IF Truthy(filename) THEN ("fileName" :> filename) ELSE EmptyDict)
        @@ (IF Truthy(caption) THEN ("caption" :> caption) ELSE EmptyDict)
    ELSE IF Truthy(message) THEN ("message" :> message)
    ELSE EmptyDict

_build_content(message, image, video, audio, document, caption, mimetype, filename, ptt) ==
    IF Truthy(image) THEN
        ("image" :> image)
        @@ (IF Truthy(caption) THEN ("caption" :> caption) ELSE EmptyDict)
    ELSE IF Truthy(video) THEN
        ("video" :> video)
        @@ (IF Truthy(caption) THEN ("caption" :> caption) ELSE EmptyDict)
    ELSE IF Truthy(audio) THEN
        ("audio" :> audio)
        @@ (IF ptt # None THEN ("ptt" :> ptt) ELSE EmptyDict)
    ELSE IF Truthy(document) THEN
        ("document" :> document)
        @@ (IF Truthy(mimetype) THEN ("mimetype" :> mimetype) ELSE EmptyDict)
        @@ (IF Truthy(filename) THEN ("fileName" :> filename) ELSE EmptyDict)
        @@ (IF Truthy(caption) THEN ("caption" :> caption) ELSE EmptyDict)
    ELSE IF Truthy(message) THEN ("message" :> message)
    ELSE EmptyDict

\* r = self._client.<method>(path, json=body); self._handle_error(r); return r.json()
_request_json(isClosed, method, path, body, answer) ==
    LET r == ClientSend(isClosed, answer) IN
    [log |-> <<Request(method, path, body)>>,
     ret |-> IF r.kind = "error" THEN Raise(r.exc)
             ELSE LET h == _handle_error(r) IN
                  IF h.kind = "raise" THEN h ELSE Json(r)]

status(isClosed, answer) == _request_json(isClosed, "GET", "/status", NoBody, answer)

\* A slip: no try / except around status().
is_connected_uncaught(isClosed, answer) ==
    LET s == status(isClosed, answer) IN
    [log |-> s.log,
     ret |-> IF s.ret.kind = "raise" THEN s.ret
             ELSE LET g == BodyGet(s.ret.value, "status", None) IN
                  IF g.kind = "raise" THEN g
                  ELSE Return(g.value = "open")]

is_connected(isClosed, answer) ==
    LET s == status(isClosed, answer) IN
    [log |-> s.log,
     ret |-> IF s.ret.kind = "raise" THEN Return(FALSE)
             ELSE LET g == BodyGet(s.ret.value, "status", None) IN
                  IF g.kind = "raise" THEN Return(FALSE)
                  ELSE Return(g.value = "open")]

groups(isClosed, answer) ==
    LET s == _request_json(isClosed, "GET", "/groups", NoBody, answer) IN
    [log |-> s.log,
     ret |-> IF s.ret.kind = "raise" THEN s.ret
             ELSE BodyGet(s.ret.value, "groups", <<>>)]

_send_to(isClosed, phone, message, answer) ==
    _request_json(isClosed, "POST", "/send",
                  ("phone" :> phone) @@ ("message" :> message), answer)

_send_self(isClosed, message, answer) ==
    _request_json(isClosed, "POST", "/send/self", ("message" :> message), answer)

\* A slip: the text is kept beside the media in the body posted to /send.
send_text_beside_media(isClosed, a, answer) ==
    LET has_media == Truthy(a.image) \/ Truthy(a.video) \/ Truthy(a.audio)
                        \/ Truthy(a.document)
        content == _build_content(a.message, a.image, a.video, a.audio, a.document,
                                  a.caption, a.mimetype, a.filename, a.ptt)
    IN  IF a.phone_or_message = None
        THEN _request_json(isClosed, "POST", "/send/self", content, answer)
        ELSE IF has_media
        THEN _request_json(isClosed, "POST", "/send",
                           Merge(("phone" :> a.phone_or_message)
                                 @@ ("message" :> a.message), content), answer)
        ELSE IF a.message = None
        THEN _send_self(isClosed, a.phone_or_message, answer)
        ELSE _send_to(isClosed, a.phone_or_message, a.message, answer)

\* A slip: a single string is always taken for a phone number.
send_always_to_phone(isClosed, a, answer) ==
    LET has_media == Truthy(a.image) \/ Truthy(a.video) \/ Truthy(a.audio)
                        \/ Truthy(a.document)
        content == _build_content(a.message, a.image, a.video, a.audio, a.document,
                                  a.caption, a.mimetype, a.filename, a.ptt)
    IN  IF a.phone_or_message = None
        THEN _request_json(isClosed, "POST", "/send/self", content, answer)
        ELSE IF has_media
        THEN _request_json(isClosed, "POST", "/send",
                           Merge(("phone" :> a.phone_or_message), content), answer)
        ELSE _send_to(isClosed, a.phone_or_message, a.message, answer)

\* A slip: "message is None" is tested before has_media.
send_self_before_media(isClosed, a, answer) ==
    LET has_media == Truthy(a.image) \/ Truthy(a.video) \/ Truthy(a.audio)
                        \/ Truthy(a.document)
        content == _build_content(a.message, a.image, a.video, a.audio, a.document,
                                  a.caption, a.mimetype, a.filename, a.ptt)
    IN  IF a.phone_or_message = None
        THEN _request_json(isClosed, "POST", "/send/self", content, answer)
        ELSE IF a.message = None
        THEN _send_self(isClosed, a.phone_or_message, answer)
        ELSE IF has_media
        THEN _request_json(isClosed, "POST", "/send",
                           Merge(("phone" :> a.phone_or_message), content), answer)
        ELSE _send_to(isClosed, a.phone_or_message, a.message, answer)

\* send with a first argument that is not a list (the list branch is _send_many).
send(isClosed, a, answer) ==
    LET has_media == Truthy(a.image) \/ Truthy(a.video) \/ Truthy(a.audio)
                        \/ Truthy(a.document)
        content == _build_content(a.message, a.image, a.video, a.audio, a.document,
                                  a.caption, a.mimetype, a.filename, a.ptt)
    IN  IF a.phone_or_message = None
        THEN _request_json(isClosed, "POST", "/send/self", content, answer)
        ELSE IF has_media
        THEN _request_json(isClosed, "POST", "/send",
                           Merge(("phone" :> a.phone_or_message), content), answer)
        ELSE IF a.message = None
        THEN _send_self(isClosed, a.phone_or_message, answer)
        ELSE _send_to(isClosed, a.phone_or_message, a.message, answer)

send_group(isClosed, group_id, a, answer) ==
    LET content == _build_content(a.message, a.image, a.video, a.audio, a.document,
                                  a.caption, a.mimetype, a.filename, a.ptt)
    IN  _request_json(isClosed, "POST", "/send/group",
                      Merge(("groupId" :> group_id), content), answer)

send_channel(isClosed, channel_id, a, answer) ==
    LET content == _build_content(a.message, a.image, a.video, a.audio, a.document,
                                  a.caption, a.mimetype, a.filename, a.ptt)
    IN  _request_json(isClosed, "POST", "/send/channel",
                      Merge(("channelId" :> channel_id), content), answer)

\* _send_many._do_send, the statements inside try:
_do_send_try(isClosed, phone, msg, answer) ==
    LET r == FreshSend(isClosed, answer) IN
    IF r.kind = "error" THEN Raise(r.exc)
    ELSE IF r.status_code = 200 THEN Json(r)
    ELSE LET data == Json(r) IN
         IF data.kind = "raise" THEN data
         ELSE LET error == BodyGet(data.value, "error", "Unknown error") IN
              IF error.kind = "raise" THEN error
              ELSE Return([success |-> FALSE, error |-> error.value, to |-> phone])

\* A slip: no except clause around the request.
_do_send_uncaught(isClosed, phone, msg, answer) ==
    _do_send_try(isClosed, phone, msg, answer)

\* _send_many._do_send: try ... except Exception as e. What the item's future holds.
_do_send(isClosed, phone, msg, answer) ==
    LET t == _do_send_try(isClosed, phone, msg, answer) IN
    IF t.kind = "raise"
    THEN Return([success |-> FALSE, error |-> t.exc.message, to |-> phone])
    ELSE t

\* A slip: the results are stored in the order the futures complete.
_send_many_slot_by_completion(idx, k) == k

\* results[idx] = result: the slot the k-th collected future's result is written to.
_send_many_slot(idx, k) == idx

\* self._client.close(): httpx closes once and ignores a second close.
close(isClosed) == [closed |-> TRUE, ret |-> Return(None)]

\* A slip: the client is closed only when the block ends without an exception.
__exit__only_on_success(isClosed, exc) ==
    IF exc = None THEN close(isClosed)
    ELSE [closed |-> isClosed, ret |-> Return(None)]

\* __exit__(*args): self.close(), whatever args (the exception, if any) are.
__exit__(isClosed, exc) == close(isClosed)

---------------------------------------------------------------------------
(* class AsyncWABridge: the asynchronous client *)

\* A slip: a 400 is not told apart from the other statuses.
Async_handle_error_no_validation(response) ==
    IF response.status_code = 200 THEN Return(None)
    ELSE LET data == Json(response) IN
         IF data.kind = "raise" THEN data
         ELSE LET error == BodyGet(data.value, "error", "Unknown error") IN
              IF error.kind = "raise" THEN error
              ELSE IF response.status_code = 500
                   THEN Raise(ConnectionError(error.value, 500))
              ELSE Raise(WABridgeError(error.value, response.status_code))

Async_handle_error(response) ==
    IF response.status_code = 200 THEN Return(None)
    ELSE LET data == Json(response) IN
         IF data.kind = "raise" THEN data
         ELSE LET error == BodyGet(data.value, "error", "Unknown error") IN
              IF error.kind = "raise" THEN error
              ELSE IF response.status_code = 500
                   THEN Raise(ConnectionError(error.value, 500))
              ELSE IF response.status_code = 400
                   THEN Raise(ValidationError(error.value, 400))
              ELSE Raise(WABridgeError(error.value, response.status_code))

Async_build_content(message, image, video, audio, document, caption, mimetype, filename, ptt) ==
    IF Truthy(image) THEN
        ("image" :> image)
        @@ (IF Truthy(caption) THEN ("caption" :> caption) ELSE EmptyDict)
    ELSE IF Truthy(video) THEN
        ("video" :> video)
        @@ (IF Truthy(caption) THEN ("caption" :> caption) ELSE EmptyDict)
    ELSE IF Truthy(audio) THEN
        ("audio" :> audio)
        @@ (IF ptt # None THEN ("ptt" :> ptt) ELSE EmptyDict)
    ELSE IF Truthy(document) THEN
        ("document" :> document)
        @@ (IF Truthy(mimetype) THEN ("mimetype" :> mimetype) ELSE EmptyDict)
        @@ (IF Truthy(filename) THEN ("fileName" :> filename) ELSE EmptyDict)
        @@ (IF Truthy(caption) THEN ("caption" :> caption) ELSE EmptyDict)
    ELSE IF Truthy(message) THEN ("message" :> message)
    ELSE EmptyDict

\* r = await self._client.<method>(path, json=body); self._handle_error(r); return r.json()
Async_request_json(isClosed, method, path, body, answer) ==
    LET r == ClientSend(isClosed, answer) IN
    [log |-> <<Request(method, path, body)>>,
     ret |-> IF r.kind = "error" THEN Raise(r.exc)
             ELSE LET h == Async_handle_error(r) IN
                  IF h.kind = "raise" THEN h ELSE Json(r)]

Async_status(isClosed, answer) ==
    Async_request_json(isClosed, "GET", "/status", NoBody, answer)

Async_is_connected(isClosed, answer) ==
    LET s == Async_status(isClosed, answer) IN
    [log |-> s.log,
     ret |-> IF s.ret.kind = "raise" THEN Return(FALSE)
             ELSE LET g == BodyGet(s.ret.value, "status", None) IN
                  IF g.kind = "raise" THEN Return(FALSE)
                  ELSE Return(g.value = "open")]

Async_groups(isClosed, answer) ==
    LET s == Async_request_json(isClosed, "GET", "/groups", NoBody, answer) IN
    [log |-> s.log,
     ret |-> IF s.ret.kind = "raise" THEN s.ret
             ELSE BodyGet(s.ret.value, "groups", <<>>)]

Async_send_to(isClosed, phone, message, answer) ==
    Async_request_json(isClosed, "POST", "/send",
                       ("phone" :> phone) @@ ("message" :> message), answer)

Async_send_self(isClosed, message, answer) ==
    Async_request_json(isClosed, "POST", "/send/self", ("message" :> message), answer)

\* send with a first argument that is not a list (the list branch is _send_many).
Async_send(isClosed, a, answer) ==
    LET has_media == Truthy(a.image) \/ Truthy(a.video) \/ Truthy(a.audio)
                        \/ Truthy(a.document)
        content == Async_build_content(a.message, a.image, a.video, a.audio,
                                       a.document, a.caption, a.mimetype,
                                       a.filename, a.ptt)
    IN  IF a.phone_or_message = None
        THEN Async_request_json(isClosed, "POST", "/send/self", content, answer)
        ELSE IF has_media
        THEN Async_request_json(isClosed, "POST", "/send",
                                Merge(("phone" :> a.phone_or_message), content), answer)
        ELSE IF a.message = None
        THEN Async_send_self(isClosed, a.phone_or_message, answer)
        ELSE Async_send_to(isClosed, a.phone_or_message, a.message, answer)

Async_send_group(isClosed, group_id, a, answer) ==
    LET content == Async_build_content(a.message, a.image, a.video, a.audio,
                                       a.document, a.caption, a.mimetype,
                                       a.filename, a.ptt)
    IN  Async_request_json(isClosed, "POST", "/send/group",
                           Merge(("groupId" :> group_id), content), answer)

Async_send_channel(isClosed, channel_id, a, answer) ==
    LET content == Async_build_content(a.message, a.image, a.video, a.audio,
                                       a.document, a.caption, a.mimetype,
                                       a.filename, a.ptt)
    IN  Async_request_json(isClosed, "POST", "/send/channel",
                           Merge(("channelId" :> channel_id), content), answer)

\* _send_many._do_send, the statements inside try:
Async_do_send_try(isClosed, phone, msg, answer) ==
    LET r == ClientSend(isClosed, answer) IN
    IF r.kind = "error" THEN Raise(r.exc)
    ELSE IF r.status_code = 200 THEN Json(r)
    ELSE LET data == Json(r) IN
         IF data.kind = "raise" THEN data
         ELSE LET error == BodyGet(data.value, "error", "Unknown error") IN
              IF error.kind = "raise" THEN error
              ELSE Return([success |-> FALSE, error |-> error.value, to |-> phone])

\* _send_many._do_send: try ... except Exception as e. What the item's coroutine returns.
Async_do_send(isClosed, phone, msg, answer) ==
    LET t == Async_do_send_try(isClosed, phone, msg, answer) IN
    IF t.kind = "raise"
    THEN Return([success |-> FALSE, error |-> t.exc.message, to |-> phone])
    ELSE t

\* await self._client.aclose(): httpx closes once and ignores a second close.
Async_close(isClosed) == [closed |-> TRUE, ret |-> Return(None)]

\* __aexit__(*args): await self.close(), whatever args are.
__aexit__(isClosed, exc) == Async_close(isClosed)

---------------------------------------------------------------------------
(* The inputs of the calls and the answers of the server *)

InvalidBody == [json |-> "invalid"]

ListBody == [json |-> "list"]

Dict(d) == [json |-> "dict", d |-> d]

CommonBodies == {InvalidBody, ListBody, Dict(EmptyDict), Dict("error" :> "boom")}

StatusBodies ==
    CommonBodies \cup {Dict(("status" :> "open") @@ ("user" :> "jid")),
                       Dict("status" :> "connecting"),
                       Dict(("status" :> "open") @@ ("error" :> "boom"))}

GroupsBodies == CommonBodies \cup {Dict("groups" :> <<"g1", "g2">>)}

SendBodies == CommonBodies \cup {Dict("success" :> "true")}

StatusCodes == {200, 400, 500, 404}

TransportErrors == {TransportError("ConnectError"), TransportError("ReadTimeout")}

Answers(bodies) ==
    {Response(c, b) : c \in StatusCodes, b \in bodies} \cup TransportErrors

\* The answers to the items of a batch.
BatchAnswers ==
    {Response(200, Dict("success" :> "true")), Response(200, InvalidBody),
     Response(400, Dict("error" :> "boom")), Response(500, Dict(EmptyDict)),
     Response(404, InvalidBody), TransportError("ReadTimeout")}

\* The first argument of send when it is not a list.
Targets == {None, "", "919"}

JIDs == {"120@g.us"}

\* caption, mimetype, filename and ptt of the dispatching calls.
AuxArgs ==
    {[caption |-> None, mimetype |-> None, filename |-> None, ptt |-> None],
     [caption |-> "", mimetype |-> "", filename |-> "", ptt |-> "False"],
     [caption |-> "cap", mimetype |-> "mt", filename |-> "fn", ptt |-> "True"]}

ContentArgs ==
    {[message |-> m, image |-> i, video |-> v, audio |-> a, document |-> d,
      caption |-> x.caption, mimetype |-> x.mimetype, filename |-> x.filename,
      ptt |-> x.ptt] :
        m \in {None, "", "hi"}, i \in {None, "", "img"}, v \in {None, "", "vid"},
        a \in {None, "", "aud"}, d \in {None, "", "doc"}, x \in AuxArgs}

SendArgs == {[phone_or_message |-> t] @@ c : t \in Targets, c \in ContentArgs}

Items == {<<"911", "hi">>, <<"922", "yo">>}

SeqsUpTo(S, n) == UNION {[1..k -> S] : k \in 0..n}

BatchLists == SeqsUpTo(Items, MaxBatch)

\* max_workers: int = 5
DefaultMaxWorkers == 5

\* The max_workers of a sync batch call: left out, or given.
MaxWorkersChoices == {DefaultMaxWorkers} \cup 1..MaxWorkersArg

---------------------------------------------------------------------------
(* The state machine *)

NoCall == [op |-> "none"]

NoAnswer == [kind |-> "none"]

NoRet == [kind |-> "none"]

Both(s, a) == [v \in Variants |-> IF v = "sync" THEN s ELSE a]

Init ==
    /\ closed = Both(FALSE, FALSE)
    /\ pc = "idle"
    /\ call = NoCall
    /\ served = NoAnswer
    /\ log = Both(<<>>, <<>>)
    /\ ret = Both(NoRet, NoRet)
    /\ pool = <<>>
    /\ results = <<>>
    /\ tasks = <<>>

\* One call, made on both clients and answered alike: s and a are what the
\* sync and the async handler did with it.
Finish(c, answer, s, a) ==
    /\ call' = c
    /\ served' = answer
    /\ log' = Both(s.log, a.log)
    /\ ret' = Both(s.ret, a.ret)
    /\ pc' = "returned"
    /\ UNCHANGED <<closed, pool, results, tasks>>

Status ==
    /\ pc = "idle"
    /\ \E answer \in Answers(StatusBodies) :
         Finish([op |-> "status"], answer,
                status(closed["sync"], answer), Async_status(closed["async"], answer))

IsConnected ==
    /\ pc = "idle"
    /\ \E answer \in Answers(StatusBodies) :
         Finish([op |-> "is_connected"], answer,
                is_connected(closed["sync"], answer),
                Async_is_connected(closed["async"], answer))

Groups ==
    /\ pc = "idle"
    /\ \E answer \in Answers(GroupsBodies) :
         Finish([op |-> "groups"], answer,
                groups(closed["sync"], answer), Async_groups(closed["async"], answer))

Send ==
    /\ pc = "idle"
    /\ \E a \in SendArgs, answer \in Answers(SendBodies) :
         Finish([op |-> "send", args |-> a], answer,
                send(closed["sync"], a, answer), Async_send(closed["async"], a, answer))

SendGroup ==
    /\ pc = "idle"
    /\ \E id \in JIDs, a \in ContentArgs, answer \in Answers(SendBodies) :
         Finish([op |-> "send_group", id |-> id, args |-> a], answer,
                send_group(closed["sync"], id, a, answer),
                Async_send_group(closed["async"], id, a, answer))

SendChannel ==
    /\ pc = "idle"
    /\ \E id \in JIDs, a \in ContentArgs, answer \in Answers(SendBodies) :
         Finish([op |-> "send_channel", id |-> id, args |-> a], answer,
                send_channel(closed["sync"], id, a, answer),
                Async_send_channel(closed["async"], id, a, answer))

Close ==
    /\ pc = "idle"
    /\ LET s == close(closed["sync"])
           a == Async_close(closed["async"])
       IN  /\ closed' = Both(s.closed, a.closed)
           /\ ret' = Both(s.ret, a.ret)
    /\ call' = [op |-> "close", before |-> closed]
    /\ pc' = "returned"
    /\ UNCHANGED <<served, log, pool, results, tasks>>

\* The end of a with / async with block: exc is the exception that ends it, or None.
Exit ==
    /\ pc = "idle"
    /\ \E exc \in {None, "KeyError"} :
         LET s == __exit__(closed["sync"], exc)
             a == __aexit__(closed["async"], exc)
         IN  /\ closed' = Both(s.closed, a.closed)
             /\ ret' = Both(s.ret, a.ret)
             /\ call' = [op |-> "__exit__", before |-> closed, exc |-> exc]
    /\ pc' = "returned"
    /\ UNCHANGED <<served, log, pool, results, tasks>>

\* The caller has the outcome of the call and goes on to its next call.
Continue ==
    /\ pc = "returned"
    /\ pc' = "idle"
    /\ call' = NoCall
    /\ served' = NoAnswer
    /\ log' = Both(<<>>, <<>>)
    /\ ret' = Both(NoRet, NoRet)
    /\ pool' = <<>>
    /\ results' = <<>>
    /\ tasks' = <<>>
    /\ UNCHANGED closed

---------------------------------------------------------------------------
(* send with a list: _send_many, first on the sync client, then on the    *)
(* async one.  max_workers is a parameter of the sync send alone.         *)

N == Len(call.messages)

\* A future / task: its state, what its _do_send ended with, and the position
\* at which it was collected (sync) or finished (async); 0 before that.
Future(state, outcome, at) == [state |-> state, outcome |-> outcome, at |-> at]

\* None as an element of the results list, whose other elements are dicts.
NoneResult == [none |-> TRUE]

SendMany ==
    /\ pc = "idle"
    /\ \E messages \in BatchLists, max_workers \in MaxWorkersChoices :
         \E answers \in [1..Len(messages) -> BatchAnswers] :
            /\ call' = [op |-> "send_many", messages |-> messages,
                        max_workers |-> max_workers]
            /\ served' = answers
            \* results = [None] * len(messages); futures = [pool.submit(...) ...]
            /\ results' = [i \in 1..Len(messages) |-> NoneResult]
            /\ pool' = [i \in 1..Len(messages) |-> Future("queued", NoRet, 0)]
    /\ pc' = "sync_batch"
    /\ UNCHANGED <<closed, log, ret, tasks>>

Running == {i \in 1..N : pool[i].state = "running"}

Queued == {i \in 1..N : pool[i].state = "queued"}

\* A slip: one thread per work item, whatever max_workers is.
WorkerFree_unbounded == TRUE

\* ThreadPoolExecutor(max_workers=max_workers): a worker thread is free (or can
\* still be spawned) while fewer than max_workers work items are being run.
WorkerFree == Cardinality(Running) < call.max_workers

\* A free worker thread takes the oldest queued work item and posts its request.
SyncStart ==
    /\ pc = "sync_batch"
    /\ Queued # {}
    /\ WorkerFree
    /\ LET i == CHOOSE q \in Queued : \A o \in Queued : q <= o IN
       /\ pool' = [pool EXCEPT ![i].state = "running"]
       /\ log' = [log EXCEPT !["sync"] =
                    Append(@, Request("POST", "/send",
                                      ("phone" :> call.messages[i][1])
                                      @@ ("message" :> call.messages[i][2])))]
    /\ UNCHANGED <<closed, pc, call, served, ret, results, tasks>>

\* The request of item i is answered and _do_send ends: its future is done.
SyncFinish ==
    /\ pc = "sync_batch"
    /\ \E i \in Running :
         pool' = [pool EXCEPT ![i] =
                    Future("done", _do_send(closed["sync"], call.messages[i][1],
                                            call.messages[i][2], served[i]), 0)]
    /\ UNCHANGED <<closed, pc, call, served, log, ret, results, tasks>>

Collected == {i \in 1..N : pool[i].state = "collected"}

\* for future in as_completed(futures): idx, result = future.result();
\* results[idx] = result.  A future that holds an exception raises it here.
SyncCollect ==
    /\ pc = "sync_batch"
    /\ ret["sync"].kind # "raise"
    /\ \E i \in 1..N :
         /\ pool[i].state = "done"
         /\ pool' = [pool EXCEPT ![i].state = "collected",
                                  ![i].at = Cardinality(Collected) + 1]
         /\ IF pool[i].outcome.kind = "raise"
            THEN /\ ret' = [ret EXCEPT !["sync"] = pool[i].outcome]
                 /\ UNCHANGED results
            ELSE /\ results' = [results EXCEPT
                      ![_send_many_slot(i, Cardinality(Collected) + 1)] =
                          pool[i].outcome.value]
                 /\ UNCHANGED ret
    /\ UNCHANGED <<closed, pc, call, served, log, tasks>>

\* The with block of the pool ends once every work item has run; _send_many
\* returns results, or lets the exception of the loop out.  Then the same call
\* is made on the async client: gather wraps one _do_send coroutine per item.
SyncReturn ==
    /\ pc = "sync_batch"
    /\ Queued = {} /\ Running = {}
    /\ ret["sync"].kind = "raise" \/ \A i \in 1..N : pool[i].state = "collected"
    /\ ret' = [ret EXCEPT !["sync"] = IF @.kind = "raise" THEN @ ELSE Return(results)]
    /\ tasks' = [i \in 1..N |-> Future("created", NoRet, 0)]
    /\ pc' = "async_batch"
    /\ UNCHANGED <<closed, call, served, log, pool, results>>

Created == {i \in 1..N : tasks[i].state = "created"}

\* The event loop runs the next coroutine up to its await self._client.post(...).
AsyncStart ==
    /\ pc = "async_batch"
    /\ Created # {}
    /\ LET i == CHOOSE q \in Created : \A o \in Created : q <= o IN
       /\ tasks' = [tasks EXCEPT ![i].state = "awaiting"]
       /\ log' = [log EXCEPT !["async"] =
                    Append(@, Request("POST", "/send",
                                      ("phone" :> call.messages[i][1])
                                      @@ ("message" :> call.messages[i][2])))]
    /\ UNCHANGED <<closed, pc, call, served, ret, pool, results>>

Done == {i \in 1..N : tasks[i].state = "done"}

\* The request of item i is answered and its coroutine ends.
AsyncFinish ==
    /\ pc = "async_batch"
    /\ \E i \in 1..N :
         /\ tasks[i].state = "awaiting"
         /\ tasks' = [tasks EXCEPT ![i] =
                        Future("done", Async_do_send(closed["async"], call.messages[i][1],
                                                     call.messages[i][2], served[i]),
                               Cardinality(Done) + 1)]
    /\ UNCHANGED <<closed, pc, call, served, log, ret, pool, results>>

\* asyncio.gather(*coroutines): the results in the order of its arguments, or
\* the first exception a coroutine raised.
gather(ts) ==
    IF \E i \in 1..Len(ts) : ts[i].outcome.kind = "raise"
    THEN ts[CHOOSE i \in 1..Len(ts) : ts[i].outcome.kind = "raise"].outcome
    ELSE Return([i \in 1..Len(ts) |-> ts[i].outcome.value])

AsyncReturn ==
    /\ pc = "async_batch"
    /\ \A i \in 1..N : tasks[i].state = "done"
    /\ ret' = [ret EXCEPT !["async"] = gather(tasks)]
    /\ pc' = "returned"
    /\ UNCHANGED <<closed, call, served, log, pool, results, tasks>>

Next ==
    \/ Status
    \/ IsConnected
    \/ Groups
    \/ Send
    \/ SendGroup
    \/ SendChannel
    \/ SendMany
    \/ SyncStart
    \/ SyncFinish
    \/ SyncCollect
    \/ SyncReturn
    \/ AsyncStart
    \/ AsyncFinish
    \/ AsyncReturn
    \/ Close
    \/ Exit
    \/ Continue

Spec == Init /\ [][Next]_vars

---------------------------------------------------------------------------
(* _build_content on its own, over every combination of its arguments *)

OptStr(x) == {None, "", x}

BuildArgs ==
    [message : OptStr("hi"), image : OptStr("img"), video : OptStr("vid"),
     audio : OptStr("aud"), document : OptStr("doc"), caption : OptStr("cap"),
     mimetype : OptStr("mt"), filename : OptStr("fn"), ptt : {None, "True", "False"}]

InitContent ==
    /\ closed = Both(FALSE, FALSE)
    /\ pc = "idle"
    /\ call \in {[op |-> "_build_content", args |-> a] : a \in BuildArgs}
    /\ served = NoAnswer
    /\ log = Both(<<>>, <<>>)
    /\ ret = Both(NoRet, NoRet)
    /\ pool = <<>>
    /\ results = <<>>
    /\ tasks = <<>>

BuildContent ==
    /\ pc = "idle"
    /\ call.op = "_build_content"
    /\ LET a == call.args IN
       ret' = Both(Return(_build_content(a.message, a.image, a.video, a.audio,
                                         a.document, a.caption, a.mimetype,
                                         a.filename, a.ptt)),
                   Return(Async_build_content(a.message, a.image, a.video, a.audio,
                                              a.document, a.caption, a.mimetype,
                                              a.filename, a.ptt)))
    /\ pc' = "returned"
    /\ UNCHANGED <<closed, call, served, log, pool, results, tasks>>

SpecContent == InitContent /\ [][BuildContent]_vars

---------------------------------------------------------------------------
(* Claims about batch send *)

\* _send_many has returned on variant v (the sync client runs it first).
BatchReturned(v) ==
    /\ call.op = "send_many"
    /\ \/ pc = "returned"
       \/ v = "sync" /\ pc = "async_batch"

\* What the request made for input pair i ended with on variant v.
ItemOutcome(v, i) == IF v = "sync" THEN pool[i].outcome ELSE tasks[i].outcome

\* C1: a batch send returns, on both clients and whatever the order in which the
\* requests complete, a sequence as long as the input list whose element i is
\* the outcome of the request made for input pair i, and never an unfilled slot.
C1_BatchOrderPreserved ==
    \A v \in Variants :
        BatchReturned(v) =>
            /\ ret[v].kind = "return"
            /\ Len(ret[v].value) = Len(call.messages)
            /\ \A i \in 1..Len(call.messages) :
                 /\ ret[v].value[i] # NoneResult
                 /\ ItemOutcome(v, i).kind = "return"
                 /\ ret[v].value[i] = ItemOutcome(v, i).value

\* Two items whose requests end differently and complete in the reverse of the
\* input order on both clients.
C1_Witness ==
    /\ pc = "returned"
    /\ call.op = "send_many"
    /\ Len(call.messages) = 2
    /\ call.messages[1] # call.messages[2]
    /\ pool[1].at = 2 /\ pool[2].at = 1
    /\ tasks[1].at = 2 /\ tasks[2].at = 1
    /\ ret["sync"].value[1] # ret["sync"].value[2]
    /\ ret["async"].value[1] # ret["async"].value[2]

\* What the HTTP layer answers to the request of item i on variant v: the pooled
\* client of the async variant refuses once closed, httpx.post never does.
ItemAnswer(v, i) ==
    IF v = "async" /\ closed[v] THEN TransportError("RuntimeError") ELSE served[i]

\* The item failed: no response, a non-200 response, or a body that is not JSON.
ItemFailed(answer) ==
    \/ answer.kind = "error"
    \/ answer.kind = "response" /\ answer.status_code # 200
    \/ answer.kind = "response" /\ answer.body.json = "invalid"

\* C2: a batch send returns normally whatever happens to its items; a failed
\* item yields {success: false, error, to: its phone} in its own slot, and every
\* other item yields the decoded body of its own 200 response.
C2_BatchIsolatesFailures ==
    \A v \in Variants :
        BatchReturned(v) =>
            /\ ret[v].kind = "return"
            /\ \A i \in 1..Len(call.messages) :
                 IF ItemFailed(ItemAnswer(v, i))
                 THEN /\ DOMAIN ret[v].value[i] = {"success", "error", "to"}
                      /\ ret[v].value[i].success = FALSE
                      /\ ret[v].value[i].to = call.messages[i][1]
                 ELSE ret[v].value[i] = ItemAnswer(v, i).body

\* A batch in which the first item fails and the second succeeds, on open
\* clients, has returned on both.
C2_Witness ==
    /\ pc = "returned"
    /\ call.op = "send_many"
    /\ Len(call.messages) = 2
    /\ ~closed["sync"] /\ ~closed["async"]
    /\ served[1].kind = "error"
    /\ ~ItemFailed(served[2])
    /\ \A v \in Variants :
         /\ ret[v].value[1].success = FALSE
         /\ ret[v].value[2] = served[2].body

---------------------------------------------------------------------------
(* Claims about the single-item operations *)

SingleOps == {"status", "groups", "send", "send_group", "send_channel"}

\* The error kind the status code stands for.
ErrorKindOf(status_code) ==
    IF status_code = 500 THEN "ConnectionError"
    ELSE IF status_code = 400 THEN "ValidationError"
    ELSE "WABridgeError"

\* The body's error field, or the fallback literal when there is none.
ErrorFieldOf(body) ==
    IF body.json = "dict" /\ "error" \in DOMAIN body.d THEN body.d["error"]
    ELSE "Unknown error"

\* C3: on every single-item operation a non-200 response reaches the caller as
\* exactly one of the three error kinds (connectivity on 500, validation on 400,
\* the generic bridge error with the status code otherwise) whose message is the
\* body's error field or the fallback literal, and a 200 response raises nothing.
C3_ResponsesMapToThreeKinds ==
    \A v \in Variants :
        (/\ pc = "returned"
         /\ call.op \in SingleOps
         /\ ~closed[v]
         /\ served.kind = "response")
        => IF served.status_code = 200
           THEN ret[v].kind = "return"
           ELSE /\ ret[v].kind = "raise"
                /\ ret[v].exc.type = ErrorKindOf(served.status_code)
                /\ ret[v].exc.message = ErrorFieldOf(served.body)
                /\ ret[v].exc.status_code = served.status_code

\* C8: is_connected never raises: whatever the status request ends with, it
\* returns a boolean, and it returns true exactly when the request was answered
\* 200 with a decoded body whose status field is "open".
C8_IsConnectedNeverRaises ==
    \A v \in Variants :
        (pc = "returned" /\ call.op = "is_connected")
        => /\ ret[v].kind = "return"
           /\ ret[v].value \in BOOLEAN
           /\ ret[v].value <=>
                /\ ~closed[v]
                /\ served.kind = "response"
                /\ served.status_code = 200
                /\ served.body.json = "dict"
                /\ "status" \in DOMAIN served.body.d
                /\ served.body.d["status"] = "open"

\* is_connected has answered false to a non-200 response whose body is not JSON.
C8_Witness ==
    /\ pc = "returned"
    /\ call.op = "is_connected"
    /\ served.kind = "response"
    /\ served.status_code = 500
    /\ served.body.json = "invalid"
    /\ \A v \in Variants : ~closed[v] /\ ret[v] = Return(FALSE)

\* C9: after close, and after the end of a with / async with block however the
\* block ended, the pooled connection is released on both clients and nothing
\* was raised, also when the client was closed already.
C9_CloseReleasesAlways ==
    (pc = "returned" /\ call.op \in {"close", "__exit__"})
    => \A v \in Variants : closed[v] /\ ret[v].kind = "return"

\* A block that ends by an exception, on clients that were closed inside it.
C9_Witness ==
    /\ pc = "returned"
    /\ call.op = "__exit__"
    /\ call.exc # None
    /\ \A v \in Variants : call.before[v] /\ closed[v] /\ ret[v].kind = "return"

---------------------------------------------------------------------------
(* Claims about the content payload and the routing of send *)

KindFields == {"image", "video", "audio", "document", "message"}

Precedence == <<"image", "video", "audio", "document", "message">>

\* An argument is supplied when it is neither None nor empty.
Supplied(a, k) == a[k] # None /\ a[k] # ""

\* The highest-precedence supplied kind of the arguments a, or None.
TopKind(a) ==
    IF \E n \in 1..5 : Supplied(a, Precedence[n])
    THEN Precedence[CHOOSE n \in 1..5 :
            /\ Supplied(a, Precedence[n])
            /\ \A m \in 1..(n - 1) : ~Supplied(a, Precedence[m])]
    ELSE None

KindsOf(body) == DOMAIN body \cap KindFields

\* C4: the content payload holds at most one kind field, the highest-precedence
\* supplied one with the value supplied, and caption only with image, video or
\* document, mimetype and fileName only with document, ptt only with audio.
C4_OneKindByPrecedence ==
    (pc = "returned" /\ call.op = "_build_content")
    => \A v \in Variants :
         LET payload == ret[v].value
             kinds == KindsOf(payload)
         IN  /\ Cardinality(kinds) <= 1
             /\ kinds = (IF TopKind(call.args) = None THEN {} ELSE {TopKind(call.args)})
             /\ \A k \in kinds : payload[k] = call.args[k]
             /\ "caption" \in DOMAIN payload
                    => kinds \in {{"image"}, {"video"}, {"document"}}
             /\ "mimetype" \in DOMAIN payload => kinds = {"document"}
             /\ "fileName" \in DOMAIN payload => kinds = {"document"}
             /\ "ptt" \in DOMAIN payload => kinds = {"audio"}

\* Every kind and every auxiliary argument supplied: the payload is image and caption.
C4_Witness ==
    /\ pc = "returned"
    /\ call.op = "_build_content"
    /\ \A k \in DOMAIN call.args : call.args[k] \notin {None, ""}
    /\ \A v \in Variants :
         ret[v].value = [image |-> call.args.image, caption |-> call.args.caption]

SendPaths == {"/send", "/send/self", "/send/group", "/send/channel"}

\* The requests variant v issued to the send endpoints.
SendRequests(v) == {log[v][k] : k \in {j \in 1..Len(log[v]) : log[v][j].path \in SendPaths}}

\* C5, as claimed: every body sent to a send endpoint holds exactly one kind field.
C5_ExactlyOneKind ==
    \A v \in Variants :
        \A r \in SendRequests(v) : Cardinality(KindsOf(r.body)) = 1

\* The call builds its body from the content payload alone and supplies no kind:
\* send without a target, send_group or send_channel, with no message and no media.
NoKindCall ==
    /\ call.op \in {"send", "send_group", "send_channel"}
    /\ call.op = "send" => call.args.phone_or_message = None
    /\ TopKind(call.args) = None

\* The kind a body of the call holds: the top supplied one, and message for the
\* text of send(text), send(phone, message) and of a batch item.
KindOfCall ==
    IF call.op = "send_many" THEN "message"
    ELSE IF TopKind(call.args) = None THEN "message"
    ELSE TopKind(call.args)

\* C5, amended: every body sent to a send endpoint holds at most one kind field,
\* the one the precedence order chooses; it holds none exactly when the call is
\* send without a target, send_group or send_channel and supplies no kind.
C5_AtMostOneKind ==
    \A v \in Variants :
        \A r \in SendRequests(v) :
            /\ Cardinality(KindsOf(r.body)) <= 1
            /\ KindsOf(r.body) = {} <=> NoKindCall
            /\ KindsOf(r.body) # {} => KindsOf(r.body) = {KindOfCall}

\* send to a phone with every medium and a message supplied: one request on each
\* client, whose body holds the image alone.
C5_Witness ==
    /\ pc = "returned"
    /\ call.op = "send"
    /\ call.args.phone_or_message = "919"
    /\ \A k \in KindFields : Supplied(call.args, k)
    /\ \A v \in Variants :
         /\ Len(log[v]) = 1
         /\ KindsOf(log[v][1].body) = {"image"}

HasMedia(a) == \E k \in {"image", "video", "audio", "document"} : Supplied(a, k)

\* C6: send(text), a string with no message and no media, issues exactly one
\* request, POST /send/self {message: text}; send(phone, message), a string with
\* a non-null message and no media, issues exactly one, POST /send {phone, message}.
C6_SingleStringGoesToSelf ==
    (/\ pc = "returned"
     /\ call.op = "send"
     /\ call.args.phone_or_message # None
     /\ ~HasMedia(call.args))
    => \A v \in Variants :
         IF call.args.message = None
         THEN log[v] = <<Request("POST", "/send/self",
                                 [message |-> call.args.phone_or_message])>>
         ELSE log[v] = <<Request("POST", "/send",
                                 [phone |-> call.args.phone_or_message,
                                  message |-> call.args.message])>>

\* send("919") has posted {message: "919"} to /send/self on both clients.
C6_Witness ==
    /\ pc = "returned"
    /\ call.op = "send"
    /\ call.args.phone_or_message = "919"
    /\ call.args.message = None
    /\ ~HasMedia(call.args)
    /\ \A v \in Variants :
         /\ Len(log[v]) = 1
         /\ log[v][1].path = "/send/self"
         /\ log[v][1].body = [message |-> "919"]

\* The fields the content payload of the arguments a is made of, as the data
\* model describes it: the kind, and the auxiliary fields that go with it.
PayloadFields(a) ==
    LET kind == TopKind(a) IN
    {<<kind, a[kind]>>}
    \cup {<<"caption", a.caption>> : x \in
            {y \in {1} : kind \in {"image", "video", "document"} /\ Supplied(a, "caption")}}
    \cup {<<"mimetype", a.mimetype>> : x \in
            {y \in {1} : kind = "document" /\ Supplied(a, "mimetype")}}
    \cup {<<"fileName", a.filename>> : x \in
            {y \in {1} : kind = "document" /\ Supplied(a, "filename")}}
    \cup {<<"ptt", a.ptt>> : x \in {y \in {1} : kind = "audio" /\ a.ptt # None}}

\* C7: send with a target that is not a list and a media option supplied issues
\* POST /send with the body {phone: target, ...content payload}: the target is
\* not taken for a message to self.
C7_MediaWithTargetGoesToPhone ==
    (/\ pc = "returned"
     /\ call.op = "send"
     /\ call.args.phone_or_message # None
     /\ HasMedia(call.args))
    => \A v \in Variants :
         /\ Len(log[v]) = 1
         /\ log[v][1].method = "POST"
         /\ log[v][1].path = "/send"
         /\ "phone" \in DOMAIN log[v][1].body
         /\ log[v][1].body["phone"] = call.args.phone_or_message
         /\ {<<k, log[v][1].body[k]>> : k \in DOMAIN log[v][1].body \ {"phone"}}
                = PayloadFields(call.args)

\* send("919", image = "img") with no message has posted to /send on both clients.
C7_Witness ==
    /\ pc = "returned"
    /\ call.op = "send"
    /\ call.args.phone_or_message = "919"
    /\ call.args.message = None
    /\ call.args.image = "img"
    /\ \A v \in Variants :
         /\ Len(log[v]) = 1
         /\ log[v][1].path = "/send"
         /\ log[v][1].body["image"] = "img"

---------------------------------------------------------------------------
(* The two variants against each other *)

Count(seq, r) == Cardinality({k \in 1..Len(seq) : seq[k] = r})

\* Both clients issued the same requests, in whatever order.
SameRequests ==
    /\ Len(log["sync"]) = Len(log["async"])
    /\ \A k \in 1..Len(log["sync"]) :
         Count(log["sync"], log["sync"][k]) = Count(log["async"], log["sync"][k])

\* C10, as claimed: called alike in the same state (open or closed) and answered
\* alike, the two clients issue the same requests and end alike.
C10_VariantsIdentical ==
    pc = "returned" => SameRequests /\ ret["sync"] = ret["async"]

ClosedBatch == call.op = "send_many" /\ closed["sync"] /\ closed["async"]

\* C10, amended: the two clients issue the same requests and end alike, but for
\* a batch send on closed clients: there the sync client, which posts each item
\* over a fresh connection, returns what the server answered, and the async
\* client returns a failure record for every item.
C10_VariantsIdenticalButClosedBatch ==
    pc = "returned" =>
        /\ SameRequests
        /\ IF ClosedBatch
           THEN /\ ret["sync"].kind = "return" /\ ret["async"].kind = "return"
                /\ \A i \in 1..Len(call.messages) :
                     /\ ret["async"].value[i] =
                            [success |-> FALSE, error |-> "str(RuntimeError)",
                             to |-> call.messages[i][1]]
                     /\ ~ItemFailed(served[i])
                            => ret["sync"].value[i] = served[i].body
           ELSE ret["sync"] = ret["async"]

\* A batch send on closed clients whose first item the server accepted.
C10_Witness ==
    /\ pc = "returned"
    /\ ClosedBatch
    /\ Len(call.messages) = 2
    /\ ~ItemFailed(served[1])
    /\ ret["sync"].value[1] = served[1].body
    /\ ret["async"].value[1].success = FALSE

---------------------------------------------------------------------------
(* The worker pool of the synchronous batch send *)

\* The POST /send request made for input pair i.
ItemRequest(i) ==
    Request("POST", "/send", [phone |-> call.messages[i][1],
                              message |-> call.messages[i][2]])

\* The input pairs equal to pair i (a list may name a pair more than once).
SamePairs(i) == {j \in 1..Len(call.messages) : call.messages[j] = call.messages[i]}

\* The input pairs equal to pair i whose request has been posted.
PostedPairs(i) == {j \in SamePairs(i) : pool[j].state # "queued"}

\* C11: in the synchronous batch send at most max_workers (5 by default)
\* POST /send requests are in flight at any moment; every input item's request
\* is issued exactly once all the same: while the call runs it can always go on
\* and each item posted so far was posted once, and it returns only when every
\* item's request has been posted once and has completed or failed.
C11_PoolBoundsInFlight ==
    /\ pc = "sync_batch" =>
         /\ Cardinality(Running) <= call.max_workers
         /\ ret["sync"] = NoRet
         /\ \A i \in 1..Len(call.messages) :
              Count(log["sync"], ItemRequest(i)) = Cardinality(PostedPairs(i))
         /\ ENABLED (SyncStart \/ SyncFinish \/ SyncCollect \/ SyncReturn)
    /\ BatchReturned("sync") =>
         /\ Len(log["sync"]) = Len(call.messages)
         /\ \A i \in 1..Len(call.messages) :
              /\ Count(log["sync"], ItemRequest(i)) = Cardinality(SamePairs(i))
              /\ pool[i].state = "collected"
              /\ pool[i].outcome.kind = "return"

\* max_workers = 1 and two items: the first request is in flight, the second
\* item waits in the queue for the worker.
C11_Witness ==
    /\ pc = "sync_batch"
    /\ call.max_workers = 1
    /\ Len(call.messages) = 2
    /\ pool[1].state = "running"
    /\ pool[2].state = "queued"
    /\ Len(log["sync"]) = 1

====
